---- MODULE Spec2Model ----
(***************************************************************************)
(* arboreal: a mutable directed graph with a bounded undo history.         *)
(*                                                                         *)
(* The repository holds two designs of the same container:                 *)
(*   - the map-keyed DiGraph struct (graph_base/, digraph/): nodes in a    *)
(*     HashMap, edges in a Vec, two adjacency maps, undo();                *)
(*   - the flat StateGraph (graph_ref.rs, digraph.rs, state_graph.rs):     *)
(*     nodes and edges in Vecs, a degree map, no undo.                     *)
(* Both are modelled, each with its own variables and specification       *)
(* (Spec, SpecFlat); SpecCache drives a history deque through the          *)
(* ChangeCache trait alone.                                                *)
(***************************************************************************)
EXTENDS Integers, Sequences, FiniteSets, TLC

\* ------------------------------------------------------------------------
\* Bounds
\* ------------------------------------------------------------------------
NumIds == 3
MaxEdges == 2
\* capacity of the DiGraph struct's history, and of the StateGraph's
HistLimit == 2
FlatHistLimit == 2
\* capacity of a HistoryDeque used on its own
CacheLimit == 3

Ids == 1..NumIds
\* Option<Id>::None; ids are 1..NumIds
NoId == 0
\* payloads: 0 is the bare payload (Nodal::bare / DirEdge::bare / Option::None)
Bare == 0
Payloads == {Bare, 1}

\* ------------------------------------------------------------------------
\* Sequence helpers (Vec operations)
\* ------------------------------------------------------------------------
Range(s) == {s[i] : i \in 1..Len(s)}

\* Vec::remove(index): shifts the tail down, order kept
VecRemove(s, i) == SubSeq(s, 1, i - 1) \o SubSeq(s, i + 1, Len(s))

\* Vec::swap_remove(index): the last element takes the removed one's place
VecSwapRemove(s, i) ==
    IF i = Len(s) THEN SubSeq(s, 1, Len(s) - 1)
    ELSE [k \in 1..(Len(s) - 1) |-> IF k = i THEN s[Len(s)] ELSE s[k]]

\* Vec::retain(|&x| x != v)
RetainNe(s, v) == SelectSeq(s, LAMBDA x : x # v)

\* HashMap::insert / HashMap::remove on a function
MapInsert(m, k, v) == [x \in (DOMAIN m) \cup {k} |-> IF x = k THEN v ELSE m[x]]
MapRemove(m, k) == [x \in (DOMAIN m) \ {k} |-> m[x]]
EmptyMap == [x \in {} |-> 0]

\* ------------------------------------------------------------------------
\* graph_components: nodes, edges, change descriptors
\* ------------------------------------------------------------------------
Node(i, d) == [id |-> i, data |-> d]
BareNode(i) == Node(i, Bare)
Edge(s, e, d) == [start |-> s, end |-> e, data |-> d]
BareEdge(s, e) == Edge(s, e, Bare)

AddNode(n) == [tag |-> "AddNode", node |-> n]
RemoveNode(n, es) == [tag |-> "RemoveNode", node |-> n, edges |-> es]
AddEdge(e) == [tag |-> "AddEdge", edge |-> e]
AddEdgeWith(e, ns, ne) == [tag |-> "AddEdgeWith", edge |-> e, new_start |-> ns, new_end |-> ne]
RemoveEdge(e) == [tag |-> "RemoveEdge", edge |-> e]
InsertNodeAlongEdge(n, e) == [tag |-> "InsertNodeAlongEdge", node |-> n, edge |-> e]
Failure(msg) == [tag |-> "Failure", msg |-> msg]

ErrDuplicateId == "Node with this id already exists."
ErrNodeNotFound == "Node with this id not found."
ErrDuplicateEdge == "Edge with these terminals already exists."
ErrMissingEndpoint == "Terminals not found in graph."
ErrEdgeNotFound == "Edge not found in graph."
Errors == {ErrDuplicateId, ErrNodeNotFound, ErrDuplicateEdge, ErrMissingEndpoint, ErrEdgeNotFound}

\* ------------------------------------------------------------------------
\* fixed_deque::Deque behind HistoryDeque, and the ChangeCache trait
\* ------------------------------------------------------------------------
\* Deque::push_back on a deque of capacity limit: a full deque first drops its
\* front element
\* mutant: a full deque gives up its newest element
push_back_drops_newest(h, limit, change) ==
    IF Len(h) >= limit THEN SubSeq(h, 1, Len(h) - 1) \o <<change>> ELSE h \o <<change>>

push_back(h, limit, change) ==
    IF Len(h) >= limit THEN Tail(h) \o <<change>> ELSE h \o <<change>>

\* the element push_back hands back: the dropped front, or NoChange
NoChange == [tag |-> "None"]
push_back_evicted(h, limit) ==
    IF Len(h) >= limit THEN h[1] ELSE NoChange

\* mut_history() returns an Option: NoHistory stands for None, the value of
\* an implementor that has recording disabled; any other h is the deque of
\* Some(h). The provided methods do nothing and return None on None.
NoHistory == <<[tag |-> "NoHistory"]>>

\* mutant: the history is pushed to without looking at the Option
register_change_unconditional(h, change) == push_back(h, HistLimit, change)

register_change(h, change) == IF h = NoHistory THEN h ELSE push_back(h, HistLimit, change)
register_change_returned(h) ==
    IF h = NoHistory THEN NoChange ELSE push_back_evicted(h, HistLimit)

\* mutant: the newest entry is read and left in the deque
pop_change_keeps_entry(h) == h

\* pop_change: Deque::pop_back, the history that is left
pop_change(h) == IF h = NoHistory \/ h = <<>> THEN h ELSE SubSeq(h, 1, Len(h) - 1)
\* pop_change: the descriptor handed back (NoChange on an empty history)
pop_change_returned(h) == IF h = NoHistory \/ h = <<>> THEN NoChange ELSE h[Len(h)]

clear_history(h) == IF h = NoHistory THEN h ELSE <<>>

\* ------------------------------------------------------------------------
\* graph_base::graph_ref: the consistency checks of the map-keyed design.
\* nodes is the HashMap<Id, N> (a function on the live ids), edges the Vec<E>.
\* ------------------------------------------------------------------------
\* first index whose edge has these terminals, 0 for None
edge_index(edges, id_in, id_out) ==
    LET hits == {i \in 1..Len(edges) : edges[i].start = id_in /\ edges[i].end = id_out}
    IN IF hits = {} THEN 0 ELSE CHOOSE i \in hits : \A j \in hits : i <= j

node_id_present(nodes, id) == id \in DOMAIN nodes

\* mutant: the id is not looked up
check_add_node_unchecked(nodes, new_node) == AddNode(new_node)

check_add_node(nodes, new_node) ==
    IF node_id_present(nodes, new_node.id) THEN Failure(ErrDuplicateId)
    ELSE AddNode(new_node)

\* check_node_degrees of graph_base::graph_ref: the first counter counts the
\* edges with start_id() = id, the second those with end_id() = id
check_node_degrees(edges, id) ==
    <<Cardinality({i \in 1..Len(edges) : edges[i].start = id}),
      Cardinality({i \in 1..Len(edges) : edges[i].end = id})>>

check_remove_node(nodes, edges, id) ==
    IF ~node_id_present(nodes, id) THEN Failure(ErrNodeNotFound)
    ELSE RemoveNode(nodes[id], SelectSeq(edges, LAMBDA e : e.start = id \/ e.end = id))

\* mutant: an edge with the same terminals is not looked for
check_add_edge_allows_parallel(nodes, edges, new_edge) ==
    IF node_id_present(nodes, new_edge.start) /\ node_id_present(nodes, new_edge.end)
    THEN AddEdge(new_edge)
    ELSE Failure(ErrMissingEndpoint)

check_add_edge(nodes, edges, new_edge) ==
    IF edge_index(edges, new_edge.start, new_edge.end) # 0 THEN Failure(ErrDuplicateEdge)
    ELSE IF node_id_present(nodes, new_edge.start) /\ node_id_present(nodes, new_edge.end)
         THEN AddEdge(new_edge)
         ELSE Failure(ErrMissingEndpoint)

\* mutant: both terminals are recorded as newly created
check_add_edge_with_nodes_all_new(nodes, edges, id_in, id_out) ==
    IF edge_index(edges, id_in, id_out) # 0 THEN Failure(ErrDuplicateEdge)
    ELSE AddEdgeWith(BareEdge(id_in, id_out), id_in, id_out)

check_add_edge_with_nodes(nodes, edges, id_in, id_out) ==
    IF edge_index(edges, id_in, id_out) # 0 THEN Failure(ErrDuplicateEdge)
    ELSE AddEdgeWith(BareEdge(id_in, id_out),
                     IF node_id_present(nodes, id_in) THEN NoId ELSE id_in,
                     IF node_id_present(nodes, id_out) THEN NoId ELSE id_out)

check_remove_edge(edges, id_in, id_out) ==
    IF edge_index(edges, id_in, id_out) # 0
    THEN RemoveEdge(edges[edge_index(edges, id_in, id_out)])
    ELSE Failure(ErrEdgeNotFound)

\* collect_reachable_neighbors: depth-first over the successor lists, in list
\* order; census is the Vec of ids visited so far, and an id with no key in
\* the map is pushed and contributes no successor.
RECURSIVE collect_reachable_neighbors(_, _, _)
RECURSIVE collect_each_neighbor(_, _, _)

\* mutant: only the first successor of an id is followed
collect_reachable_neighbors_first_only(census, starting_point, after_neighbor_map) ==
    IF starting_point \in Range(census) THEN census
    ELSE LET pushed == Append(census, starting_point)
         IN IF starting_point \in DOMAIN after_neighbor_map
               /\ after_neighbor_map[starting_point] # <<>>
            THEN collect_reachable_neighbors(
                    pushed, Head(after_neighbor_map[starting_point]), after_neighbor_map)
            ELSE pushed

collect_reachable_neighbors(census, starting_point, after_neighbor_map) ==
    IF starting_point \in Range(census) THEN census
    ELSE LET pushed == Append(census, starting_point)
         IN IF starting_point \in DOMAIN after_neighbor_map
            THEN collect_each_neighbor(
                    pushed, after_neighbor_map[starting_point], after_neighbor_map)
            ELSE pushed

\* the for loop of collect_reachable_neighbors over one successor list
collect_each_neighbor(census, cul_da_sac, after_neighbor_map) ==
    IF cul_da_sac = <<>> THEN census
    ELSE collect_each_neighbor(
            collect_reachable_neighbors(census, Head(cul_da_sac), after_neighbor_map),
            Tail(cul_da_sac), after_neighbor_map)

\* collect_reachable_neighbors once more, counting its calls: a run carries
\* the census, the ids whose successor list was expanded, the number of calls
\* made, and cut, set when the number of calls reaches TraversalFuel (the
\* traversal is given up as not ending).
TraversalFuel == 8

\* mutant: the census is never found to hold the id
census_contains_never(census, id) == FALSE

\* census.contains(&starting_point)
census_contains(census, id) == id \in Range(census)

NewRun == [census |-> <<>>, expanded |-> <<>>, calls |-> 0, cut |-> FALSE]

RECURSIVE collect_counted(_, _, _)
RECURSIVE collect_counted_each(_, _, _)

collect_counted(run, starting_point, after_neighbor_map) ==
    IF run.cut \/ run.calls >= TraversalFuel THEN [run EXCEPT !.cut = TRUE]
    ELSE LET called == [run EXCEPT !.calls = @ + 1]
         IN IF census_contains(called.census, starting_point) THEN called
            ELSE LET pushed == [called EXCEPT !.census = Append(@, starting_point)]
                 IN IF starting_point \in DOMAIN after_neighbor_map
                    THEN collect_counted_each(
                            [pushed EXCEPT !.expanded = Append(@, starting_point)],
                            after_neighbor_map[starting_point], after_neighbor_map)
                    ELSE pushed

\* the for loop of collect_reachable_neighbors over one successor list
collect_counted_each(run, cul_da_sac, after_neighbor_map) ==
    IF cul_da_sac = <<>> \/ run.cut THEN run
    ELSE collect_counted_each(
            collect_counted(run, Head(cul_da_sac), after_neighbor_map),
            Tail(cul_da_sac), after_neighbor_map)

\* ------------------------------------------------------------------------
\* digraph::digraph_impl: the unregistered primitives of the DiGraph struct.
\* A graph value g carries the struct's fields and fault, set when a step
\* panics (an unwrap of None); a panicked value is passed through unchanged.
\* ------------------------------------------------------------------------
Panic(g) == [g EXCEPT !.fault = TRUE]

insert_node_unregistered(g, node) ==
    IF g.fault THEN g
    ELSE [g EXCEPT !.nodes = MapInsert(@, node.id, node),
                   !.neighbors_before = MapInsert(@, node.id, <<>>),
                   !.neighbors_after = MapInsert(@, node.id, <<>>)]

\* mutant: the start node is not registered as the end node's predecessor
insert_edge_unregistered_one_sided(g, edge) ==
    IF g.fault THEN g
    ELSE LET g1 == [g EXCEPT !.edges = Append(@, edge)]
         IN IF edge.start \notin DOMAIN g1.neighbors_after THEN Panic(g1)
            ELSE [g1 EXCEPT !.neighbors_after[edge.start] = Append(@, edge.end)]

insert_edge_unregistered(g, edge) ==
    IF g.fault THEN g
    ELSE LET g1 == [g EXCEPT !.edges = Append(@, edge)]
         IN IF edge.start \notin DOMAIN g1.neighbors_after THEN Panic(g1)
            ELSE LET g2 == [g1 EXCEPT !.neighbors_after[edge.start] = Append(@, edge.end)]
                 IN IF edge.end \notin DOMAIN g2.neighbors_before THEN Panic(g2)
                    ELSE [g2 EXCEPT !.neighbors_before[edge.end] = Append(@, edge.start)]

\* edge_index = 0 stands for the caller's unwrap of a None index
remove_edge_unregistered(g, index) ==
    IF g.fault THEN g
    ELSE IF index = 0 THEN Panic(g)
    ELSE LET dropped == g.edges[index]
             g1 == [g EXCEPT !.edges = VecSwapRemove(@, index)]
         IN IF dropped.end \notin DOMAIN g1.neighbors_before THEN Panic(g1)
            ELSE LET g2 == [g1 EXCEPT !.neighbors_before[dropped.end] = RetainNe(@, dropped.start)]
                 IN IF dropped.start \notin DOMAIN g2.neighbors_after THEN Panic(g2)
                    ELSE [g2 EXCEPT !.neighbors_after[dropped.start] = RetainNe(@, dropped.end)]

\* the loop over the copied predecessor list of node_id
RECURSIVE drop_edges_before(_, _, _)
drop_edges_before(g, ids_before, node_id) ==
    IF ids_before = <<>> \/ g.fault THEN g
    ELSE drop_edges_before(
            remove_edge_unregistered(g, edge_index(g.edges, Head(ids_before), node_id)),
            Tail(ids_before), node_id)

\* the loop over the copied successor list of node_id
RECURSIVE drop_edges_after(_, _, _)
drop_edges_after(g, ids_after, node_id) ==
    IF ids_after = <<>> \/ g.fault THEN g
    ELSE drop_edges_after(
            remove_edge_unregistered(g, edge_index(g.edges, node_id, Head(ids_after))),
            Tail(ids_after), node_id)

\* mutant: the node is removed without its incident edges
remove_node_unregistered_no_cascade(g, node_id) ==
    IF g.fault THEN g
    ELSE IF node_id \notin DOMAIN g.nodes THEN Panic(g)
    ELSE [g EXCEPT !.nodes = MapRemove(@, node_id)]

remove_node_unregistered(g, node_id) ==
    IF g.fault THEN g
    ELSE IF node_id \notin DOMAIN g.neighbors_before THEN Panic(g)
    ELSE LET g1 == drop_edges_before(g, g.neighbors_before[node_id], node_id)
         IN IF g1.fault THEN g1
            ELSE IF node_id \notin DOMAIN g1.neighbors_after THEN Panic(g1)
            ELSE LET g2 == drop_edges_after(g1, g1.neighbors_after[node_id], node_id)
                 IN IF g2.fault THEN g2
                    ELSE IF node_id \notin DOMAIN g2.nodes THEN Panic(g2)
                    ELSE [g2 EXCEPT !.nodes = MapRemove(@, node_id)]

\* ------------------------------------------------------------------------
\* digraph::cache: DiGraph::undo
\* ------------------------------------------------------------------------
RECURSIVE insert_edges_unregistered(_, _)
insert_edges_unregistered(g, es) ==
    IF es = <<>> THEN g
    ELSE insert_edges_unregistered(insert_edge_unregistered(g, Head(es)), Tail(es))

\* mutant: undoing RemoveNode brings back the node without its edges
undo_apply_node_only(g, change) ==
    CASE change.tag = "AddNode" -> remove_node_unregistered(g, change.node.id)
      [] change.tag = "RemoveNode" -> insert_node_unregistered(g, change.node)
      [] change.tag = "AddEdge" ->
            remove_edge_unregistered(g, edge_index(g.edges, change.edge.start, change.edge.end))
      [] change.tag = "AddEdgeWith" ->
            LET g1 == IF change.new_start # NoId
                      THEN remove_node_unregistered(g, change.new_start) ELSE g
                g2 == IF change.new_end # NoId
                      THEN remove_node_unregistered(g1, change.new_end) ELSE g1
                ix == edge_index(g2.edges, change.edge.start, change.edge.end)
            IN IF ix # 0 THEN remove_edge_unregistered(g2, ix) ELSE g2
      [] change.tag = "RemoveEdge" -> insert_edge_unregistered(g, change.edge)
      [] change.tag = "InsertNodeAlongEdge" ->
            insert_edge_unregistered(remove_node_unregistered(g, change.node.id), change.edge)
      [] OTHER -> g

\* mutant: undoing InsertNodeAlongEdge puts back an edge without its payload
undo_apply_bare_edge(g, change) ==
    CASE change.tag = "AddNode" -> remove_node_unregistered(g, change.node.id)
      [] change.tag = "RemoveNode" ->
            insert_edges_unregistered(insert_node_unregistered(g, change.node), change.edges)
      [] change.tag = "AddEdge" ->
            remove_edge_unregistered(g, edge_index(g.edges, change.edge.start, change.edge.end))
      [] change.tag = "AddEdgeWith" ->
            LET g1 == IF change.new_start # NoId
                      THEN remove_node_unregistered(g, change.new_start) ELSE g
                g2 == IF change.new_end # NoId
                      THEN remove_node_unregistered(g1, change.new_end) ELSE g1
                ix == edge_index(g2.edges, change.edge.start, change.edge.end)
            IN IF ix # 0 THEN remove_edge_unregistered(g2, ix) ELSE g2
      [] change.tag = "RemoveEdge" -> insert_edge_unregistered(g, change.edge)
      [] change.tag = "InsertNodeAlongEdge" ->
            insert_edge_unregistered(remove_node_unregistered(g, change.node.id),
                                     BareEdge(change.edge.start, change.edge.end))
      [] OTHER -> g

\* mutant: an added edge is left in place when its descriptor is undone
undo_apply_keeps_added_edge(g, change) ==
    CASE change.tag = "AddNode" -> remove_node_unregistered(g, change.node.id)
      [] change.tag = "RemoveNode" ->
            insert_edges_unregistered(insert_node_unregistered(g, change.node), change.edges)
      [] change.tag = "AddEdge" -> g
      [] change.tag = "AddEdgeWith" ->
            LET g1 == IF change.new_start # NoId
                      THEN remove_node_unregistered(g, change.new_start) ELSE g
                g2 == IF change.new_end # NoId
                      THEN remove_node_unregistered(g1, change.new_end) ELSE g1
                ix == edge_index(g2.edges, change.edge.start, change.edge.end)
            IN IF ix # 0 THEN remove_edge_unregistered(g2, ix) ELSE g2
      [] change.tag = "RemoveEdge" -> insert_edge_unregistered(g, change.edge)
      [] change.tag = "InsertNodeAlongEdge" ->
            insert_edge_unregistered(remove_node_unregistered(g, change.node.id), change.edge)
      [] OTHER -> g

undo_apply(g, change) ==
    CASE change.tag = "AddNode" -> remove_node_unregistered(g, change.node.id)
      [] change.tag = "RemoveNode" ->
            insert_edges_unregistered(insert_node_unregistered(g, change.node), change.edges)
      [] change.tag = "AddEdge" ->
            remove_edge_unregistered(g, edge_index(g.edges, change.edge.start, change.edge.end))
      [] change.tag = "AddEdgeWith" ->
            LET g1 == IF change.new_start # NoId
                      THEN remove_node_unregistered(g, change.new_start) ELSE g
                g2 == IF change.new_end # NoId
                      THEN remove_node_unregistered(g1, change.new_end) ELSE g1
                ix == edge_index(g2.edges, change.edge.start, change.edge.end)
            IN IF ix # 0 THEN remove_edge_unregistered(g2, ix) ELSE g2
      [] change.tag = "RemoveEdge" -> insert_edge_unregistered(g, change.edge)
      [] change.tag = "InsertNodeAlongEdge" ->
            insert_edge_unregistered(remove_node_unregistered(g, change.node.id), change.edge)
      [] OTHER -> g

\* mutant: the popped descriptor is unwrapped, an empty history panics
undo_unwraps_pop(g) ==
    IF pop_change_returned(g.undo_history) = NoChange THEN Panic(g)
    ELSE undo_apply([g EXCEPT !.undo_history = pop_change(@)],
                    pop_change_returned(g.undo_history))

\* the graph after undo()
undo(g) ==
    IF pop_change_returned(g.undo_history) = NoChange THEN g
    ELSE undo_apply([g EXCEPT !.undo_history = pop_change(@)],
                    pop_change_returned(g.undo_history))

\* what undo() returns: Ok, or the message of a popped Failure
Ok == "Ok"
\* a call that panicked returns nothing
Panicked == "panicked"
undo_result(g) ==
    IF g.undo_history # <<>> /\ pop_change_returned(g.undo_history).tag = "Failure"
    THEN pop_change_returned(g.undo_history).msg ELSE Ok

\* ------------------------------------------------------------------------
\* The DiGraph struct as a value g, and its public mutating calls. The calls
\* validate with graph_ref's checks, commit with the unregistered primitives
\* and log one descriptor with register_change.
\* ------------------------------------------------------------------------
\* DiGraph::default()
DiGraphDefault == [nodes |-> EmptyMap, edges |-> <<>>, neighbors_before |-> EmptyMap,
                   neighbors_after |-> EmptyMap, undo_history |-> <<>>, fault |-> FALSE]

Registered(g, change) == [g EXCEPT !.undo_history = register_change(@, change)]
Done(g) == [g |-> g, res |-> Ok]
Failed(g, change) == [g |-> g, res |-> change.msg]

insert_node(g, node) ==
    LET change == check_add_node(g.nodes, node)
    IN IF change.tag = "Failure" THEN Failed(g, change)
       ELSE Done(Registered(insert_node_unregistered(g, change.node), change))

insert_edge(g, edge) ==
    LET change == check_add_edge(g.nodes, g.edges, edge)
    IN IF change.tag = "Failure" THEN Failed(g, change)
       ELSE Done(Registered(insert_edge_unregistered(g, change.edge), change))

remove_node(g, id) ==
    LET change == check_remove_node(g.nodes, g.edges, id)
    IN IF change.tag = "Failure" THEN Failed(g, change)
       ELSE Done(Registered(remove_node_unregistered(g, id), change))

remove_edge(g, id_in, id_out) ==
    LET change == check_remove_edge(g.edges, id_in, id_out)
    IN IF change.tag = "Failure" THEN Failed(g, change)
       ELSE Done(Registered(
                remove_edge_unregistered(g, edge_index(g.edges, id_in, id_out)), change))

insert_edge_with_nodes(g, id_in, id_out) ==
    LET change == check_add_edge_with_nodes(g.nodes, g.edges, id_in, id_out)
    IN IF change.tag = "Failure" THEN Failed(g, change)
       ELSE LET g1 == IF change.new_start # NoId
                      THEN insert_node_unregistered(g, BareNode(change.new_start)) ELSE g
                g2 == IF change.new_end # NoId
                      THEN insert_node_unregistered(g1, BareNode(change.new_end)) ELSE g1
            IN Done(Registered(insert_edge_unregistered(g2, change.edge), change))

insert_node_along(g, new_id, id_before, id_after) ==
    LET add == check_add_node(g.nodes, BareNode(new_id))
        drop == check_remove_edge(g.edges, id_before, id_after)
    IN IF add.tag = "Failure" THEN Failed(g, add)
       ELSE IF drop.tag = "Failure" THEN Failed(g, drop)
       ELSE LET g1 == insert_node_unregistered(g, add.node)
                g2 == remove_edge_unregistered(g1, edge_index(g1.edges, id_before, id_after))
                g3 == insert_edge_unregistered(g2, Edge(id_before, new_id, drop.edge.data))
                g4 == insert_edge_unregistered(g3, BareEdge(new_id, id_after))
            IN Done(Registered(g4, InsertNodeAlongEdge(add.node, drop.edge)))

\* in_out_degree of the struct, read off the adjacency lists
in_out_degree(g, id) == <<Len(g.neighbors_before[id]), Len(g.neighbors_after[id])>>

\* the queries of the struct. all_node_ids is the key set of the node map (a
\* HashMap: the order is unspecified, so id vectors are kept as sets);
\* in_degree and out_degree are the lengths of the adjacency lists.
all_node_ids(g) == DOMAIN g.nodes

in_degree(g, id) == in_out_degree(g, id)[1]

out_degree(g, id) == in_out_degree(g, id)[2]

\* the census of the traversal that nodes_unreachable_from(start) runs
reachable_census(g, start) == collect_reachable_neighbors(<<>>, start, g.neighbors_after)

nodes_unreachable_from(g, start) == all_node_ids(g) \ Range(reachable_census(g, start))

source_node_ids(g) == {id \in all_node_ids(g) : in_degree(g, id) = 0}

sink_node_ids(g) == {id \in all_node_ids(g) : out_degree(g, id) = 0}

\* mutant: a single source is enough, reachability is not looked at
is_connected_single_source(g) == Cardinality(source_node_ids(g)) = 1

is_connected(g) ==
    LET source_ids == source_node_ids(g)
    IN IF Cardinality(source_ids) # 1 THEN FALSE
       ELSE LET starting_point == CHOOSE id \in source_ids : TRUE
            IN nodes_unreachable_from(g, starting_point) = {}

\* what a caller can observe of the graph: nodes, edges as a set, the degrees
\* and the neighbours of every live node
View(g) ==
    [nodes |-> g.nodes,
     edges |-> Range(g.edges),
     degrees |-> [id \in DOMAIN g.nodes |->
                    IF id \in DOMAIN g.neighbors_before /\ id \in DOMAIN g.neighbors_after
                    THEN in_out_degree(g, id) ELSE <<-1, -1>>],
     before |-> [id \in DOMAIN g.nodes |->
                    IF id \in DOMAIN g.neighbors_before
                    THEN Range(g.neighbors_before[id]) ELSE {NoId}],
     after |-> [id \in DOMAIN g.nodes |->
                    IF id \in DOMAIN g.neighbors_after
                    THEN Range(g.neighbors_after[id]) ELSE {NoId}]]

\* ------------------------------------------------------------------------
\* The flat design: graph_ref.rs (checks on Vec<Node>, Vec<Edge>), the DiGraph
\* trait of digraph.rs (public calls and the degree map) and StateGraph.
\* A value sg carries StateGraph's fields and fault (a panic).
\* ------------------------------------------------------------------------
sg_InsertNodeAlongEdge(id, e) == [tag |-> "InsertNodeAlongEdge", id |-> id, edge |-> e]

\* StateGraph::default()
StateGraphDefault == [nodes |-> <<>>, edges |-> <<>>, deg_map |-> EmptyMap,
                      undo_history |-> <<>>, fault |-> FALSE]

sg_node_index(nodes, query_id) ==
    LET hits == {i \in 1..Len(nodes) : nodes[i].id = query_id}
    IN IF hits = {} THEN 0 ELSE CHOOSE i \in hits : \A j \in hits : i <= j

\* mutant: an edge in the opposite direction is found too
sg_edge_index_either_way(edges, id_in, id_out) ==
    LET hits == {i \in 1..Len(edges) :
                    \/ edges[i].start = id_in /\ edges[i].end = id_out
                    \/ edges[i].start = id_out /\ edges[i].end = id_in}
    IN IF hits = {} THEN 0 ELSE CHOOSE i \in hits : \A j \in hits : i <= j

sg_edge_index(edges, id_in, id_out) ==
    LET hits == {i \in 1..Len(edges) : edges[i].start = id_in /\ edges[i].end = id_out}
    IN IF hits = {} THEN 0 ELSE CHOOSE i \in hits : \A j \in hits : i <= j

sg_check_add_node(nodes, new_node) ==
    IF sg_node_index(nodes, new_node.id) # 0 THEN Failure(ErrDuplicateId)
    ELSE AddNode(new_node)

\* check_node_degrees of graph_ref: the first counter counts the edges with
\* edge.1 (the end) = id, the second those with edge.0 (the start) = id
sg_check_node_degrees(edges, id) ==
    <<Cardinality({i \in 1..Len(edges) : edges[i].end = id}),
      Cardinality({i \in 1..Len(edges) : edges[i].start = id})>>

\* mutant: only the edges that start at id are collected
sg_check_remove_node_starts_only(nodes, edges, id) ==
    IF sg_node_index(nodes, id) = 0 THEN Failure(ErrNodeNotFound)
    ELSE RemoveNode(nodes[sg_node_index(nodes, id)],
                    SelectSeq(edges, LAMBDA e : e.start = id))

sg_check_remove_node(nodes, edges, id) ==
    IF sg_node_index(nodes, id) = 0 THEN Failure(ErrNodeNotFound)
    ELSE RemoveNode(nodes[sg_node_index(nodes, id)],
                    SelectSeq(edges, LAMBDA e : e.start = id \/ e.end = id))

\* mutant: only the start terminal is looked up
sg_check_add_edge_start_only(nodes, edges, new_edge) ==
    IF sg_edge_index(edges, new_edge.start, new_edge.end) # 0 THEN Failure(ErrDuplicateEdge)
    ELSE IF sg_node_index(nodes, new_edge.start) # 0
         THEN AddEdge(new_edge)
         ELSE Failure(ErrMissingEndpoint)

sg_check_add_edge(nodes, edges, new_edge) ==
    IF sg_edge_index(edges, new_edge.start, new_edge.end) # 0 THEN Failure(ErrDuplicateEdge)
    ELSE IF sg_node_index(nodes, new_edge.start) # 0 /\ sg_node_index(nodes, new_edge.end) # 0
         THEN AddEdge(new_edge)
         ELSE Failure(ErrMissingEndpoint)

sg_check_add_edge_with_nodes(nodes, edges, id_in, id_out) ==
    IF sg_edge_index(edges, id_in, id_out) # 0 THEN Failure(ErrDuplicateEdge)
    ELSE AddEdgeWith(BareEdge(id_in, id_out),
                     IF sg_node_index(nodes, id_in) # 0 THEN NoId ELSE id_in,
                     IF sg_node_index(nodes, id_out) # 0 THEN NoId ELSE id_out)

sg_check_remove_edge(edges, id_in, id_out) ==
    IF sg_edge_index(edges, id_in, id_out) # 0
    THEN RemoveEdge(edges[sg_edge_index(edges, id_in, id_out)])
    ELSE Failure(ErrEdgeNotFound)

\* cache.rs: the ChangeCache trait of the flat design
sg_register_change(h, change) == push_back(h, FlatHistLimit, change)
sg_register_change_returned(h) == push_back_evicted(h, FlatHistLimit)

sg_Registered(sg, change) == [sg EXCEPT !.undo_history = sg_register_change(@, change)]

\* mutant: the degree is left as it was
sg_dec_skipped(sg, id, field, overflow_checks) ==
    IF sg.fault THEN sg
    ELSE IF id \notin DOMAIN sg.deg_map THEN Panic(sg)
    ELSE sg

\* usize subtraction: an overflow check panics on 0 - 1; without the check
\* (overflow_checks off) the value wraps modulo 2^64. The wrapped value
\* 2^64 - 1 is written -1, its representative modulo 2^64, so that adding 1
\* to it gives 0 as in the wrapping arithmetic.
sg_dec(sg, id, field, overflow_checks) ==
    IF sg.fault THEN sg
    ELSE IF id \notin DOMAIN sg.deg_map THEN Panic(sg)
    ELSE IF sg.deg_map[id][field] = 0 /\ overflow_checks THEN Panic(sg)
    ELSE [sg EXCEPT !.deg_map[id][field] = @ - 1]

sg_inc(sg, id, field) ==
    IF sg.fault THEN sg
    ELSE IF id \notin DOMAIN sg.deg_map THEN Panic(sg)
    ELSE [sg EXCEPT !.deg_map[id][field] = @ + 1]

\* mutant: the outcome of the check is registered before it is looked at
sg_insert_node_logs_failure(sg, node) ==
    LET change == sg_check_add_node(sg.nodes, node)
    IN IF change.tag = "Failure" THEN Failed(sg_Registered(sg, change), change)
       ELSE Done([sg_Registered(sg, change) EXCEPT
                    !.nodes = Append(@, change.node),
                    !.deg_map = MapInsert(@, change.node.id, <<0, 0>>)])

sg_insert_node(sg, node) ==
    LET change == sg_check_add_node(sg.nodes, node)
    IN IF change.tag = "Failure" THEN Failed(sg, change)
       ELSE Done([sg_Registered(sg, change) EXCEPT
                    !.nodes = Append(@, change.node),
                    !.deg_map = MapInsert(@, change.node.id, <<0, 0>>)])

\* mutant: the edge is pushed before its terminals are looked up
sg_insert_edge_pushes_first(sg, edge) ==
    LET change == sg_check_add_edge(sg.nodes, sg.edges, edge)
    IN IF change.tag = "Failure"
       THEN Failed(IF change.msg = ErrMissingEndpoint
                   THEN [sg EXCEPT !.edges = Append(@, edge)] ELSE sg, change)
       ELSE LET g1 == [sg_Registered(sg, change) EXCEPT !.edges = Append(@, change.edge)]
            IN Done(sg_inc(sg_inc(g1, change.edge.start, 2), change.edge.end, 1))

\* deg_map values are (in_degree, out_degree): field 1 and field 2
sg_insert_edge(sg, edge) ==
    LET change == sg_check_add_edge(sg.nodes, sg.edges, edge)
    IN IF change.tag = "Failure" THEN Failed(sg, change)
       ELSE LET g1 == [sg_Registered(sg, change) EXCEPT !.edges = Append(@, change.edge)]
            IN Done(sg_inc(sg_inc(g1, change.edge.start, 2), change.edge.end, 1))

\* mutant: the edge is looked up before the new id
sg_insert_node_along_edge_first(sg, new_id, id_before, id_after) ==
    LET add == sg_check_add_node(sg.nodes, BareNode(new_id))
        drop == sg_check_remove_edge(sg.edges, id_before, id_after)
    IN IF drop.tag = "Failure" THEN Failed(sg, drop)
       ELSE IF add.tag = "Failure" THEN Failed(sg, add)
       ELSE LET ix == sg_edge_index(sg.edges, id_before, id_after)
                edge_before == Edge(id_before, new_id, drop.edge.data)
                edge_after == BareEdge(new_id, id_after)
            IN Done([sg_Registered(sg, sg_InsertNodeAlongEdge(new_id, drop.edge)) EXCEPT
                        !.nodes = Append(@, add.node),
                        !.edges = VecRemove(@, ix) \o <<edge_before, edge_after>>,
                        !.deg_map = MapInsert(@, new_id, <<1, 1>>)])

\* mutant: the payload of the old edge goes to the edge that leaves the new node
sg_insert_node_along_payload_after(sg, new_id, id_before, id_after) ==
    LET add == sg_check_add_node(sg.nodes, BareNode(new_id))
        drop == sg_check_remove_edge(sg.edges, id_before, id_after)
    IN IF add.tag = "Failure" THEN Failed(sg, add)
       ELSE IF drop.tag = "Failure" THEN Failed(sg, drop)
       ELSE LET ix == sg_edge_index(sg.edges, id_before, id_after)
                edge_before == BareEdge(id_before, new_id)
                edge_after == Edge(new_id, id_after, drop.edge.data)
            IN Done([sg_Registered(sg, sg_InsertNodeAlongEdge(new_id, drop.edge)) EXCEPT
                        !.nodes = Append(@, add.node),
                        !.edges = VecRemove(@, ix) \o <<edge_before, edge_after>>,
                        !.deg_map = MapInsert(@, new_id, <<1, 1>>)])

sg_insert_node_along(sg, new_id, id_before, id_after) ==
    LET add == sg_check_add_node(sg.nodes, BareNode(new_id))
        drop == sg_check_remove_edge(sg.edges, id_before, id_after)
    IN IF add.tag = "Failure" THEN Failed(sg, add)
       ELSE IF drop.tag = "Failure" THEN Failed(sg, drop)
       ELSE LET ix == sg_edge_index(sg.edges, id_before, id_after)
                edge_before == Edge(id_before, new_id, drop.edge.data)
                edge_after == BareEdge(new_id, id_after)
            IN Done([sg_Registered(sg, sg_InsertNodeAlongEdge(new_id, drop.edge)) EXCEPT
                        !.nodes = Append(@, add.node),
                        !.edges = VecRemove(@, ix) \o <<edge_before, edge_after>>,
                        !.deg_map = MapInsert(@, new_id, <<1, 1>>)])

\* insert_node(..).unwrap() / insert_edge(..).unwrap(): an Err panics
sg_unwrap(out) == IF out.res = Ok THEN out.g ELSE Panic(out.g)

sg_insert_edge_with_nodes(sg, id_in, id_out) ==
    LET change == sg_check_add_edge_with_nodes(sg.nodes, sg.edges, id_in, id_out)
    IN IF change.tag = "Failure" THEN Failed(sg, change)
       ELSE LET g1 == IF change.new_start # NoId
                      THEN sg_unwrap(sg_insert_node(sg, BareNode(change.new_start))) ELSE sg
                g2 == IF g1.fault THEN g1
                      ELSE IF change.new_end # NoId
                      THEN sg_unwrap(sg_insert_node(g1, BareNode(change.new_end))) ELSE g1
                g3 == IF g2.fault THEN g2 ELSE sg_unwrap(sg_insert_edge(g2, change.edge))
            IN IF g3.fault THEN Done(g3) ELSE Done(sg_Registered(g3, change))

sg_remove_edge_unregistered(sg, id_in, id_out, overflow_checks) ==
    LET change == sg_check_remove_edge(sg.edges, id_in, id_out)
    IN IF change.tag = "Failure" THEN [g |-> sg, res |-> change.msg, change |-> change]
       ELSE LET ix == sg_edge_index(sg.edges, id_in, id_out)
                g1 == sg_dec(sg, change.edge.start, 2, overflow_checks)
                g2 == sg_dec(g1, change.edge.end, 1, overflow_checks)
            IN [g |-> IF g2.fault THEN g2 ELSE [g2 EXCEPT !.edges = VecRemove(@, ix)],
                res |-> Ok, change |-> change]

sg_remove_edge(sg, id_in, id_out, overflow_checks) ==
    LET out == sg_remove_edge_unregistered(sg, id_in, id_out, overflow_checks)
    IN IF out.res # Ok THEN [g |-> out.g, res |-> out.res]
       ELSE IF out.g.fault THEN Done(out.g)
       ELSE Done(sg_Registered(out.g, out.change))

\* the loop of remove_node over the edges to drop; an Err ends the call
RECURSIVE sg_drop_edges(_, _, _)
sg_drop_edges(out, es, overflow_checks) ==
    IF es = <<>> \/ out.res # Ok \/ out.g.fault THEN [g |-> out.g, res |-> out.res]
    ELSE sg_drop_edges(
            sg_remove_edge_unregistered(out.g, Head(es).start, Head(es).end, overflow_checks),
            Tail(es), overflow_checks)

sg_remove_node(sg, id, overflow_checks) ==
    LET change == sg_check_remove_node(sg.nodes, sg.edges, id)
    IN IF change.tag = "Failure" THEN Failed(sg, change)
       ELSE LET index == sg_node_index(sg.nodes, id)
                out == sg_drop_edges(Done(sg_Registered(sg, change)), change.edges,
                                     overflow_checks)
            IN IF out.res # Ok \/ out.g.fault THEN out
               ELSE Done([out.g EXCEPT !.deg_map = MapRemove(@, change.node.id),
                                       !.nodes = VecRemove(@, index)])

\* Queries of the DiGraph trait on the degree map. The map is a HashMap, so
\* the order of source_node_ids is unspecified: it is kept as a set, and
\* get_source depends on its length only (one element is popped when there
\* is exactly one).
ErrNoSource == "No sources in graph."
ErrMultipleSources == "Multiple sources in graph."

\* mutant: the ids with out-degree 0 are collected
sg_source_node_ids_by_out_degree(sg) == {id \in DOMAIN sg.deg_map : sg.deg_map[id][2] = 0}

sg_source_node_ids(sg) == {id \in DOMAIN sg.deg_map : sg.deg_map[id][1] = 0}

sg_sink_node_ids(sg) == {id \in DOMAIN sg.deg_map : sg.deg_map[id][2] = 0}

sg_get_source(sg) ==
    LET sources == sg_source_node_ids(sg)
    IN IF Cardinality(sources) = 1 THEN [res |-> Ok, id |-> CHOOSE id \in sources : TRUE]
       ELSE IF Cardinality(sources) = 0 THEN [res |-> ErrNoSource, id |-> NoId]
       ELSE [res |-> ErrMultipleSources, id |-> NoId]

\* DiGraph::from_edges: the default graph, insert_edge_with_nodes(..).unwrap()
\* for each pair in order, then clear_history
RECURSIVE sg_from_edges_loop(_, _)
sg_from_edges_loop(instance, edges) ==
    IF edges = <<>> \/ instance.fault THEN instance
    ELSE sg_from_edges_loop(
            sg_unwrap(sg_insert_edge_with_nodes(instance, Head(edges)[1], Head(edges)[2])),
            Tail(edges))

sg_from_edges(edges) ==
    LET instance == sg_from_edges_loop(StateGraphDefault, edges)
    IN IF instance.fault THEN instance
       ELSE [instance EXCEPT !.undo_history = clear_history(@)]

\* FileIO on StateGraph. The derived Serialize writes name, nodes and edges;
\* deg_map and undo_history are #[serde(skip)]. The derived Deserialize reads
\* the three fields back and gives each skipped field its Default: an empty
\* HashMap and HistoryDeque::default(). A snapshot is the record of the
\* fields written.
NoName == "None"
Names == {NoName, "graph"}

sg_save_to_file(sg, name) == [name |-> name, nodes |-> sg.nodes, edges |-> sg.edges]

sg_load_from_file(snapshot) ==
    [name |-> snapshot.name,
     g |-> [nodes |-> snapshot.nodes, edges |-> snapshot.edges,
            deg_map |-> StateGraphDefault.deg_map,
            undo_history |-> StateGraphDefault.undo_history,
            fault |-> FALSE]]

\* ------------------------------------------------------------------------
\* State
\* ------------------------------------------------------------------------
\* the DiGraph struct and the value its last call returned
VARIABLES nodes, edges, neighbors_before, neighbors_after, undo_history,
          fault, result

\* the StateGraph, and the value its last call returned
VARIABLES sg_nodes, sg_edges, sg_deg_map, sg_undo_history, sg_fault, sg_result

\* a HistoryDeque used through the ChangeCache trait alone: the deque, the
\* last call made on it and the value that call returned
VARIABLES cache, cache_call, cache_returned

dgvars == <<nodes, edges, neighbors_before, neighbors_after, undo_history,
            fault, result>>
sgvars == <<sg_nodes, sg_edges, sg_deg_map, sg_undo_history, sg_fault, sg_result>>
ccvars == <<cache, cache_call, cache_returned>>
vars == <<dgvars, sgvars, ccvars>>

\* the struct as a value
DG == [nodes |-> nodes, edges |-> edges, neighbors_before |-> neighbors_before,
       neighbors_after |-> neighbors_after, undo_history |-> undo_history,
       fault |-> fault]

\* the struct after the call of the step
DGNext == [nodes |-> nodes', edges |-> edges', neighbors_before |-> neighbors_before',
           neighbors_after |-> neighbors_after', undo_history |-> undo_history',
           fault |-> fault']

SG == [nodes |-> sg_nodes, edges |-> sg_edges, deg_map |-> sg_deg_map,
       undo_history |-> sg_undo_history, fault |-> sg_fault]

SGNext == [nodes |-> sg_nodes', edges |-> sg_edges', deg_map |-> sg_deg_map',
           undo_history |-> sg_undo_history', fault |-> sg_fault']

\* the nodes a caller hands to insert_node
NodeInputs == {BareNode(i) : i \in Ids} \cup {Node(1, 1)}

\* ------------------------------------------------------------------------
\* Calls on the DiGraph struct
\* ------------------------------------------------------------------------
Commit(out) ==
    /\ nodes' = out.g.nodes
    /\ edges' = out.g.edges
    /\ neighbors_before' = out.g.neighbors_before
    /\ neighbors_after' = out.g.neighbors_after
    /\ undo_history' = out.g.undo_history
    /\ fault' = out.g.fault
    /\ result' = IF out.g.fault THEN Panicked ELSE out.res
    /\ UNCHANGED <<sgvars, ccvars>>

InsertNode(node) ==
    /\ ~fault
    /\ Commit(insert_node(DG, node))

InsertEdge(s, e, data) ==
    /\ ~fault
    /\ Len(edges) < MaxEdges
    /\ Commit(insert_edge(DG, Edge(s, e, data)))

RemoveNodeCall(id) ==
    /\ ~fault
    /\ Commit(remove_node(DG, id))

RemoveEdgeCall(s, e) ==
    /\ ~fault
    /\ Commit(remove_edge(DG, s, e))

InsertEdgeWithNodes(s, e) ==
    /\ ~fault
    /\ Len(edges) < MaxEdges
    /\ Commit(insert_edge_with_nodes(DG, s, e))

InsertNodeAlong(new_id, s, e) ==
    /\ ~fault
    /\ Len(edges) < MaxEdges
    /\ Commit(insert_node_along(DG, new_id, s, e))

Undo ==
    /\ ~fault
    /\ LET g == undo(DG)
       IN /\ nodes' = g.nodes
          /\ edges' = g.edges
          /\ neighbors_before' = g.neighbors_before
          /\ neighbors_after' = g.neighbors_after
          /\ undo_history' = g.undo_history
          /\ fault' = g.fault
          /\ result' = IF g.fault THEN Panicked ELSE undo_result(DG)
    /\ UNCHANGED <<sgvars, ccvars>>

InitDG ==
    /\ nodes = DiGraphDefault.nodes
    /\ edges = DiGraphDefault.edges
    /\ neighbors_before = DiGraphDefault.neighbors_before
    /\ neighbors_after = DiGraphDefault.neighbors_after
    /\ undo_history = DiGraphDefault.undo_history
    /\ fault = DiGraphDefault.fault
    /\ result = Ok

InitSG ==
    /\ sg_nodes = StateGraphDefault.nodes
    /\ sg_edges = StateGraphDefault.edges
    /\ sg_deg_map = StateGraphDefault.deg_map
    /\ sg_undo_history = StateGraphDefault.undo_history
    /\ sg_fault = StateGraphDefault.fault
    /\ sg_result = Ok

InitCache ==
    /\ cache = <<>>
    /\ cache_call = [method |-> "new", change |-> NoChange]
    /\ cache_returned = NoChange

Init == InitDG /\ InitSG /\ InitCache

Next ==
    \/ \E node \in NodeInputs : InsertNode(node)
    \/ \E s \in Ids, e \in Ids, data \in Payloads : InsertEdge(s, e, data)
    \/ \E id \in Ids : RemoveNodeCall(id)
    \/ \E s \in Ids, e \in Ids : RemoveEdgeCall(s, e)
    \/ \E s \in Ids, e \in Ids : InsertEdgeWithNodes(s, e)
    \/ \E new_id \in Ids, s \in Ids, e \in Ids : InsertNodeAlong(new_id, s, e)
    \/ Undo

\* the DiGraph struct under any sequence of public calls and undos
Spec == Init /\ [][Next]_vars

\* a graph of the same design whose mut_history() returns None: recording is
\* disabled from construction on
InitNoHistory ==
    /\ nodes = DiGraphDefault.nodes
    /\ edges = DiGraphDefault.edges
    /\ neighbors_before = DiGraphDefault.neighbors_before
    /\ neighbors_after = DiGraphDefault.neighbors_after
    /\ undo_history = NoHistory
    /\ fault = DiGraphDefault.fault
    /\ result = Ok
    /\ InitSG
    /\ InitCache

SpecNoHistory == InitNoHistory /\ [][Next]_vars

\* ------------------------------------------------------------------------
\* Calls on the StateGraph (the DiGraph trait's provided methods)
\* ------------------------------------------------------------------------
sg_Commit(out) ==
    /\ sg_nodes' = out.g.nodes
    /\ sg_edges' = out.g.edges
    /\ sg_deg_map' = out.g.deg_map
    /\ sg_undo_history' = out.g.undo_history
    /\ sg_fault' = out.g.fault
    /\ sg_result' = IF out.g.fault THEN Panicked ELSE out.res
    /\ UNCHANGED <<dgvars, ccvars>>

SgInsertNode(node) ==
    /\ ~sg_fault
    /\ sg_Commit(sg_insert_node(SG, node))

SgInsertEdge(s, e, data) ==
    /\ ~sg_fault
    /\ Len(sg_edges) < MaxEdges
    /\ sg_Commit(sg_insert_edge(SG, Edge(s, e, data)))

SgInsertNodeAlong(new_id, s, e) ==
    /\ ~sg_fault
    /\ Len(sg_edges) < MaxEdges
    /\ sg_Commit(sg_insert_node_along(SG, new_id, s, e))

SgInsertEdgeWithNodes(s, e) ==
    /\ ~sg_fault
    /\ Len(sg_edges) < MaxEdges
    /\ sg_Commit(sg_insert_edge_with_nodes(SG, s, e))

\* overflow_checks: the build profile, with or without integer overflow checks
SgRemoveNode(id) ==
    /\ ~sg_fault
    /\ \E overflow_checks \in BOOLEAN : sg_Commit(sg_remove_node(SG, id, overflow_checks))

SgRemoveEdge(s, e) ==
    /\ ~sg_fault
    /\ \E overflow_checks \in BOOLEAN : sg_Commit(sg_remove_edge(SG, s, e, overflow_checks))

InitFlat == InitDG /\ InitSG /\ InitCache

NextFlat ==
    \/ \E node \in NodeInputs : SgInsertNode(node)
    \/ \E s \in Ids, e \in Ids, data \in Payloads : SgInsertEdge(s, e, data)
    \/ \E new_id \in Ids, s \in Ids, e \in Ids : SgInsertNodeAlong(new_id, s, e)
    \/ \E s \in Ids, e \in Ids : SgInsertEdgeWithNodes(s, e)
    \/ \E id \in Ids : SgRemoveNode(id)
    \/ \E s \in Ids, e \in Ids : SgRemoveEdge(s, e)

\* the StateGraph under any sequence of public calls
SpecFlat == InitFlat /\ [][NextFlat]_vars

\* ------------------------------------------------------------------------
\* Calls of the ChangeCache trait on a HistoryDeque::new(CacheLimit)
\* ------------------------------------------------------------------------
\* the descriptors handed to register_change
CacheChanges ==
    {AddNode(BareNode(1)), AddNode(BareNode(2)), AddEdge(BareEdge(1, 2)),
     RemoveEdge(BareEdge(1, 2)), RemoveNode(BareNode(1), <<BareEdge(1, 2)>>),
     Failure(ErrNodeNotFound)}

CacheRegisterChange(change) ==
    /\ cache' = push_back(cache, CacheLimit, change)
    /\ cache_returned' = push_back_evicted(cache, CacheLimit)
    /\ cache_call' = [method |-> "register_change", change |-> change]
    /\ UNCHANGED <<dgvars, sgvars>>

CachePopChange ==
    /\ cache' = pop_change(cache)
    /\ cache_returned' = pop_change_returned(cache)
    /\ cache_call' = [method |-> "pop_change", change |-> NoChange]
    /\ UNCHANGED <<dgvars, sgvars>>

CacheClearHistory ==
    /\ cache' = clear_history(cache)
    /\ cache_returned' = NoChange
    /\ cache_call' = [method |-> "clear_history", change |-> NoChange]
    /\ UNCHANGED <<dgvars, sgvars>>

InitCacheOnly == InitDG /\ InitSG /\ InitCache

NextCache ==
    \/ \E change \in CacheChanges : CacheRegisterChange(change)
    \/ CachePopChange
    \/ CacheClearHistory

\* a history deque under any sequence of ChangeCache calls
SpecCache == InitCacheOnly /\ [][NextCache]_vars

\* ------------------------------------------------------------------------
\* Properties
\* ------------------------------------------------------------------------
\* C1: in every state reached by successful public calls and undos of the
\* DiGraph struct, both endpoints of every edge are live nodes.
NoDanglingEdges ==
    ~fault => \A e \in Range(edges) : e.start \in DOMAIN nodes /\ e.end \in DOMAIN nodes

\* a cascading remove_node is on the log, and the graph holds edges again
NoDanglingEdgesWitness ==
    /\ ~fault
    /\ edges # <<>>
    /\ \E i \in 1..Len(undo_history) :
          undo_history[i].tag = "RemoveNode" /\ undo_history[i].edges # <<>>

\* number of entries of a Vec equal to x
Count(s, x) == Cardinality({i \in 1..Len(s) : s[i] = x})
\* number of edges a -> b in a Vec of edges
EdgeCount(es, a, b) == Cardinality({i \in 1..Len(es) : es[i].start = a /\ es[i].end = b})
NodeIds(ns) == {ns[i].id : i \in 1..Len(ns)}

\* C2: in every state reached by successful public calls of the StateGraph,
\* the degree map has one entry per live node and none for any other id, and
\* each entry is (number of edges ending at the node, number of edges
\* starting at it).
DegreeMapConsistent ==
    ~sg_fault =>
        /\ DOMAIN sg_deg_map = NodeIds(sg_nodes)
        /\ \A id \in Ids : Count([i \in 1..Len(sg_nodes) |-> sg_nodes[i].id], id) <= 1
        /\ \A id \in DOMAIN sg_deg_map :
              sg_deg_map[id] =
                 <<Cardinality({i \in 1..Len(sg_edges) : sg_edges[i].end = id}),
                   Cardinality({i \in 1..Len(sg_edges) : sg_edges[i].start = id})>>

\* a cascading remove_node has just lowered the degrees of a node that still
\* has an edge
DegreeMapConsistentWitness ==
    /\ ~sg_fault
    /\ sg_result = Ok
    /\ sg_undo_history # <<>>
    /\ sg_undo_history[Len(sg_undo_history)].tag = "RemoveNode"
    /\ sg_undo_history[Len(sg_undo_history)].edges # <<>>
    /\ sg_edges # <<>>

\* C3: in every state reached by successful mutations and undos of the
\* DiGraph struct, b is in the successor list of a, and a in the predecessor
\* list of b, exactly once if edge a -> b is in the edge collection and not at
\* all otherwise.
AdjacencyMirrorsEdges ==
    ~fault =>
        \A a \in Ids, b \in Ids :
            /\ EdgeCount(edges, a, b) <= 1
            /\ (IF a \in DOMAIN neighbors_after THEN Count(neighbors_after[a], b) ELSE 0)
                  = EdgeCount(edges, a, b)
            /\ (IF b \in DOMAIN neighbors_before THEN Count(neighbors_before[b], a) ELSE 0)
                  = EdgeCount(edges, a, b)

\* a node with two successors, in a graph from which an edge was removed
AdjacencyMirrorsEdgesWitness ==
    /\ ~fault
    /\ \E a \in DOMAIN neighbors_after : Len(neighbors_after[a]) = 2
    /\ \E i \in 1..Len(undo_history) : undo_history[i].tag \in {"RemoveEdge", "RemoveNode"}

\* the outcomes of the public mutating calls a caller can make on graph g
MutatingCalls(g) ==
    {insert_node(g, node) : node \in NodeInputs}
    \cup {insert_edge(g, Edge(s, e, data)) : s \in Ids, e \in Ids, data \in Payloads}
    \cup {remove_node(g, id) : id \in Ids}
    \cup {remove_edge(g, s, e) : s \in Ids, e \in Ids}
    \cup {insert_edge_with_nodes(g, s, e) : s \in Ids, e \in Ids}
    \cup {insert_node_along(g, new_id, s, e) : new_id \in Ids, s \in Ids, e \in Ids}

\* the graphs one successful mutating call away from g
Successes(g) == {out.g : out \in {o \in MutatingCalls(g) : o.res = Ok /\ ~o.g.fault}}

\* the graphs k successive successful mutating calls away from a graph of gs
RECURSIVE After(_, _)
After(gs, k) == IF k = 0 THEN gs ELSE After(UNION {Successes(g) : g \in gs}, k - 1)

\* the graph after k calls of undo
RECURSIVE UndoTimes(_, _)
UndoTimes(g, k) == IF k = 0 \/ g.fault THEN g ELSE UndoTimes(undo(g), k - 1)

\* C4: from every reachable state, undo called right after any successful
\* public mutating call ends normally and gives back the node set, the edge
\* set with payloads, the degrees and the adjacency of the state before the
\* call.
UndoRestoresPreCallState ==
    ~fault => \A g \in Successes(DG) : ~undo(g).fault /\ View(undo(g)) = View(DG)

\* C5: a step of the StateGraph whose call returns an error leaves the node
\* collection, the edge collection, the degree map and the history log as
\* they were.
FailureLeavesStateUnchanged ==
    [][sg_result' \in Errors =>
          UNCHANGED <<sg_nodes, sg_edges, sg_deg_map, sg_undo_history>>]_vars

\* a call has just failed on a graph that holds nodes, edges and a logged
\* descriptor
FailureLeavesStateUnchangedWitness ==
    /\ sg_result = ErrMissingEndpoint
    /\ sg_nodes # <<>>
    /\ sg_edges # <<>>
    /\ sg_undo_history # <<>>

\* C6: from a state with an empty history, after HistLimit + 1 successful
\* mutating calls and HistLimit undos the graph is the one left by the first
\* call, and one more undo changes nothing.
BoundedHistoryKeepsFirst ==
    (~fault /\ undo_history = <<>>) =>
        \A g1 \in Successes(DG) : \A g \in After({g1}, HistLimit) :
            LET u == UndoTimes(g, HistLimit)
            IN /\ ~u.fault
               /\ View(u) = View(g1)
               /\ undo(u) = u

\* C7: the deque never holds more than CacheLimit entries; register_change on
\* a full deque returns the oldest entry and leaves the others in order with
\* the new descriptor last; on a deque that is not full it returns nothing
\* and appends the descriptor.
HistoryRollingWindow ==
    /\ [](Len(cache) <= CacheLimit)
    /\ [][cache_call'.method = "register_change" =>
            IF Len(cache) = CacheLimit
            THEN /\ cache_returned' = Head(cache)
                 /\ cache' = Tail(cache) \o <<cache_call'.change>>
            ELSE /\ cache_returned' = NoChange
                 /\ cache' = cache \o <<cache_call'.change>>]_vars

\* register_change has just pushed the oldest of three distinct entries out
HistoryRollingWindowWitness ==
    /\ cache_call.method = "register_change"
    /\ cache_returned # NoChange
    /\ Len(cache) = CacheLimit
    /\ cache[1] # cache[2] /\ cache[2] # cache[3] /\ cache[1] # cache[3]
    /\ cache_returned \notin Range(cache)

\* C8: for every k up to HistLimit, k undos after k successive successful
\* mutating calls made from a reachable state end normally and give back the
\* node set, edge set, degrees and adjacency of that state.
UndoStackDiscipline ==
    ~fault => \A k \in 1..HistLimit : \A g \in After({DG}, k) :
        LET u == UndoTimes(g, k) IN ~u.fault /\ View(u) = View(DG)

\* C9: a step in which the StateGraph's remove_node succeeds removes that
\* node and the edges that start or end at it, and nothing else; the
\* RemoveNode descriptor it logs holds the node and exactly those edges, each
\* once, in the order of the edge collection.
RemoveNodeCascade ==
    [][(/\ sg_result' = Ok
        /\ sg_undo_history' # <<>>
        /\ sg_undo_history'[Len(sg_undo_history')].tag = "RemoveNode") =>
          LET change == sg_undo_history'[Len(sg_undo_history')]
              id == change.node.id
          IN /\ change.node \in Range(sg_nodes)
             /\ sg_nodes' = SelectSeq(sg_nodes, LAMBDA n : n.id # id)
             /\ sg_edges' = SelectSeq(sg_edges, LAMBDA e : e.start # id /\ e.end # id)
             /\ change.edges = SelectSeq(sg_edges, LAMBDA e : e.start = id \/ e.end = id)
             /\ \A e \in Range(sg_edges) :
                   Count(change.edges, e) = IF e.start = id \/ e.end = id THEN 1 ELSE 0]_vars

\* remove_node has just dropped a self-loop and a second edge with the node,
\* and another node is left
RemoveNodeCascadeWitness ==
    /\ sg_result = Ok
    /\ sg_undo_history # <<>>
    /\ LET change == sg_undo_history[Len(sg_undo_history)]
       IN /\ change.tag = "RemoveNode"
          /\ Len(change.edges) = 2
          /\ \E i \in 1..2 : change.edges[i].start = change.edges[i].end
    /\ sg_nodes # <<>>

\* the outcomes of the cascading calls a caller can make on graph g
CascadingCalls(g) ==
    {remove_node(g, id) : id \in Ids}
    \cup {insert_node_along(g, new_id, s, e) : new_id \in Ids, s \in Ids, e \in Ids}

\* C10: from every reachable state, a successful remove_node or
\* insert_node_along leaves the log as one register_change of a single
\* RemoveNode or InsertNodeAlongEdge descriptor leaves it, and one undo then
\* pops that descriptor and gives back the graph of before the call.
CascadeLogsOneDescriptor ==
    ~fault => \A out \in CascadingCalls(DG) : out.res = Ok =>
        LET h == out.g.undo_history
            u == undo(out.g)
        IN /\ h # <<>>
           /\ h[Len(h)].tag \in {"RemoveNode", "InsertNodeAlongEdge"}
           /\ h = register_change(undo_history, h[Len(h)])
           /\ ~u.fault
           /\ u.undo_history = pop_change(h)
           /\ View(u) = View(DG)

\* a full log, a node whose removal takes two edges with it, and an edge that
\* can be subdivided
CascadeLogsOneDescriptorWitness ==
    /\ ~fault
    /\ Len(undo_history) = HistLimit
    /\ \E id \in Ids : LET out == remove_node(DG, id)
                       IN out.res = Ok /\ Len(out.g.undo_history[HistLimit].edges) = 2
    /\ \E out \in CascadingCalls(DG) :
          out.res = Ok /\ out.g.undo_history[HistLimit].tag = "InsertNodeAlongEdge"

\* C11: from every reachable state, undo right after a successful
\* remove_node(id) brings back the node and leaves the edge collection the
\* same sequence of edges as before the call.
RemoveNodeUndoKeepsEdgeOrder ==
    ~fault => \A id \in Ids :
        LET out == remove_node(DG, id)
        IN out.res = Ok =>
              /\ ~undo(out.g).fault
              /\ undo(out.g).nodes = nodes
              /\ undo(out.g).edges = edges

\* C12: from every reachable state of the StateGraph, a successful
\* insert_edge_with_nodes(start, end) leaves the log as one register_change of
\* the AddEdgeWith descriptor leaves it, whether it made no, one or two nodes.
InsertEdgeWithNodesLogsOnce ==
    ~sg_fault => \A s \in Ids, e \in Ids :
        LET out == sg_insert_edge_with_nodes(SG, s, e)
        IN (out.res = Ok /\ ~out.g.fault) =>
              out.g.undo_history =
                 sg_register_change(sg_undo_history,
                    sg_check_add_edge_with_nodes(sg_nodes, sg_edges, s, e))

\* C13: from every reachable state, undo right after a successful
\* insert_edge_with_nodes takes away exactly the node ids its descriptor
\* records as newly created, none of which existed before the call, and the
\* added edge; every node that existed before the call keeps its payload and
\* its predecessor and successor lists, and every other edge stays.
UndoAddEdgeWithFrame ==
    ~fault => \A s \in Ids, e \in Ids :
        LET out == insert_edge_with_nodes(DG, s, e)
        IN out.res = Ok =>
              LET change == out.g.undo_history[Len(out.g.undo_history)]
                  new == {change.new_start, change.new_end} \ {NoId}
                  u == undo(out.g)
              IN /\ change.tag = "AddEdgeWith"
                 /\ new \cap DOMAIN nodes = {}
                 /\ DOMAIN u.nodes = DOMAIN out.g.nodes \ new
                 /\ \A id \in DOMAIN nodes :
                       /\ u.nodes[id] = nodes[id]
                       /\ u.neighbors_before[id] = neighbors_before[id]
                       /\ u.neighbors_after[id] = neighbors_after[id]
                 /\ Range(u.edges) = Range(out.g.edges) \ {change.edge}
                 /\ Range(u.edges) = Range(edges)

\* an edge can be added from a node that exists and has another edge to a
\* node that does not exist yet
UndoAddEdgeWithFrameWitness ==
    /\ ~fault
    /\ \E s \in DOMAIN nodes, e \in Ids \ DOMAIN nodes :
          /\ insert_edge_with_nodes(DG, s, e).res = Ok
          /\ neighbors_after[s] # <<>>
          /\ neighbors_before[s] # <<>>

\* C14: from every reachable state of the StateGraph, a successful
\* insert_node_along(new_id, before, after) adds the bare node new_id,
\* replaces edge before -> after by before -> new_id with the old edge's
\* payload and a bare new_id -> after, and leaves every other node and edge
\* as it was; new_id gets degree (1, 1) and no other degree changes.
InsertNodeAlongEffect ==
    ~sg_fault => \A new_id \in Ids, s \in Ids, e \in Ids :
        LET out == sg_insert_node_along(SG, new_id, s, e)
        IN (out.res = Ok /\ ~out.g.fault) =>
              LET old == sg_edges[sg_edge_index(sg_edges, s, e)]
              IN /\ new_id \notin NodeIds(sg_nodes)
                 /\ Len(out.g.nodes) = Len(sg_nodes) + 1
                 /\ Range(out.g.nodes) = Range(sg_nodes) \cup {BareNode(new_id)}
                 /\ Len(out.g.edges) = Len(sg_edges) + 1
                 /\ Range(out.g.edges) =
                       (Range(sg_edges) \ {old})
                          \cup {Edge(s, new_id, old.data), BareEdge(new_id, e)}
                 /\ DOMAIN out.g.deg_map = DOMAIN sg_deg_map \cup {new_id}
                 /\ out.g.deg_map[new_id] = <<1, 1>>
                 /\ \A id \in DOMAIN sg_deg_map : out.g.deg_map[id] = sg_deg_map[id]

\* an edge with a payload can be subdivided while the graph holds another
\* edge, and a subdivision has been made before
InsertNodeAlongEffectWitness ==
    /\ ~sg_fault
    /\ Len(sg_edges) = 2
    /\ \E i \in 1..Len(sg_undo_history) : sg_undo_history[i].tag = "InsertNodeAlongEdge"
    /\ \E new_id \in Ids, s \in Ids, e \in Ids :
          /\ sg_insert_node_along(SG, new_id, s, e).res = Ok
          /\ sg_edges[sg_edge_index(sg_edges, s, e)].data # Bare

\* C15: from every reachable state, undo right after a successful
\* insert_node_along(new_id, before, after) ends normally with node new_id
\* gone, no edge at new_id, and the one edge before -> after back with the
\* payload it had; the other nodes and edges are those of before the call.
UndoInsertNodeAlong ==
    ~fault => \A new_id \in Ids, s \in Ids, e \in Ids :
        LET out == insert_node_along(DG, new_id, s, e)
        IN out.res = Ok =>
              LET old == edges[edge_index(edges, s, e)]
                  u == undo(out.g)
              IN /\ ~u.fault
                 /\ new_id \in DOMAIN out.g.nodes
                 /\ EdgeCount(out.g.edges, s, e) = 0
                 /\ new_id \notin DOMAIN u.nodes
                 /\ u.nodes = nodes
                 /\ \A i \in 1..Len(u.edges) :
                       u.edges[i].start # new_id /\ u.edges[i].end # new_id
                 /\ EdgeCount(u.edges, s, e) = 1
                 /\ u.edges[edge_index(u.edges, s, e)] = old
                 /\ Range(u.edges) = Range(edges)

\* an edge with a payload can be subdivided while the graph holds another edge
UndoInsertNodeAlongWitness ==
    /\ ~fault
    /\ Len(edges) = 2
    /\ \E new_id \in Ids, s \in Ids, e \in Ids :
          /\ insert_node_along(DG, new_id, s, e).res = Ok
          /\ edges[edge_index(edges, s, e)].data # Bare

\* C16: from every reachable state, insert_node(node) returns the
\* duplicate-id error and changes nothing when node.id is present; otherwise
\* it adds exactly that node with degree (0, 0) and empty predecessor and
\* successor lists, leaves the edges and the other nodes with their lists as
\* they were, and appends one AddNode descriptor.
InsertNodeEffect ==
    ~fault => \A node \in NodeInputs :
        LET out == insert_node(DG, node)
        IN IF node.id \in DOMAIN nodes
           THEN out.res = ErrDuplicateId /\ out.g = DG
           ELSE /\ out.res = Ok
                /\ ~out.g.fault
                /\ DOMAIN out.g.nodes = DOMAIN nodes \cup {node.id}
                /\ out.g.nodes[node.id] = node
                /\ in_out_degree(out.g, node.id) = <<0, 0>>
                /\ out.g.neighbors_before[node.id] = <<>>
                /\ out.g.neighbors_after[node.id] = <<>>
                /\ out.g.edges = edges
                /\ \A id \in DOMAIN nodes :
                      /\ out.g.nodes[id] = nodes[id]
                      /\ out.g.neighbors_before[id] = neighbors_before[id]
                      /\ out.g.neighbors_after[id] = neighbors_after[id]
                /\ out.g.undo_history = register_change(undo_history, AddNode(node))

\* insert_node has just refused a duplicate id on a graph with an edge, and
\* an id that was removed before is free again
InsertNodeEffectWitness ==
    /\ ~fault
    /\ result = ErrDuplicateId
    /\ edges # <<>>
    /\ \E id \in DOMAIN neighbors_after : id \notin DOMAIN nodes

\* C17: from every reachable state of the StateGraph, insert_edge(edge)
\* returns the duplicate-edge error when an edge with the same (start, end)
\* exists and the missing-endpoint error when a terminal node is absent,
\* changing nothing; otherwise it appends the edge, raises the out-degree of
\* start and the in-degree of end by one, changes no other degree and no
\* node, and appends one AddEdge descriptor.
InsertEdgeEffect ==
    ~sg_fault => \A s \in Ids, e \in Ids, data \in Payloads :
        LET edge == Edge(s, e, data)
            out == sg_insert_edge(SG, edge)
        IN IF EdgeCount(sg_edges, s, e) > 0
           THEN out.res = ErrDuplicateEdge /\ out.g = SG
           ELSE IF s \notin NodeIds(sg_nodes) \/ e \notin NodeIds(sg_nodes)
           THEN out.res = ErrMissingEndpoint /\ out.g = SG
           ELSE /\ out.res = Ok
                /\ ~out.g.fault
                /\ out.g.edges = Append(sg_edges, edge)
                /\ out.g.nodes = sg_nodes
                /\ DOMAIN out.g.deg_map = DOMAIN sg_deg_map
                /\ \A id \in DOMAIN sg_deg_map :
                      out.g.deg_map[id] =
                         <<sg_deg_map[id][1] + (IF id = e THEN 1 ELSE 0),
                           sg_deg_map[id][2] + (IF id = s THEN 1 ELSE 0)>>
                /\ out.g.undo_history = sg_register_change(sg_undo_history, AddEdge(edge))

\* insert_edge has just refused a duplicate on a graph where a terminal is
\* missing for some edges and others can still be added
InsertEdgeEffectWitness ==
    /\ ~sg_fault
    /\ sg_result = ErrDuplicateEdge
    /\ NodeIds(sg_nodes) # Ids
    /\ \E s \in Ids, e \in Ids : sg_insert_edge(SG, Edge(s, e, 1)).res = Ok

\* C18: in every state reached by successful mutations and undos of the
\* DiGraph struct, no two entries of the edge collection have the same
\* (start, end); the witness holds a -> b together with b -> a.
EdgeTerminalsUnique ==
    ~fault => \A i \in 1..Len(edges), j \in 1..Len(edges) :
        (edges[i].start = edges[j].start /\ edges[i].end = edges[j].end) => i = j

\* a -> b and b -> a are both in the collection, after an undo put an edge back
EdgeTerminalsUniqueWitness ==
    /\ ~fault
    /\ \E a \in Ids, b \in Ids :
          a # b /\ EdgeCount(edges, a, b) = 1 /\ EdgeCount(edges, b, a) = 1
    /\ Len(undo_history) < HistLimit

\* C19: from every reachable state of the StateGraph, remove_edge(start, end)
\* returns the not-found error and changes nothing when no edge start -> end
\* is stored, whether or not end -> start is; otherwise it removes exactly
\* that edge, lowers the out-degree of start and the in-degree of end by one,
\* changes no other degree, no node and no other edge, and appends one
\* RemoveEdge descriptor that holds the removed edge with its payload.
RemoveEdgeEffect ==
    ~sg_fault => \A s \in Ids, e \in Ids, overflow_checks \in BOOLEAN :
        LET out == sg_remove_edge(SG, s, e, overflow_checks)
        IN IF EdgeCount(sg_edges, s, e) = 0
           THEN out.res = ErrEdgeNotFound /\ out.g = SG
           ELSE LET old == CHOOSE x \in Range(sg_edges) : x.start = s /\ x.end = e
                IN /\ out.res = Ok
                   /\ ~out.g.fault
                   /\ out.g.edges = SelectSeq(sg_edges, LAMBDA x : x # old)
                   /\ Len(out.g.edges) = Len(sg_edges) - 1
                   /\ out.g.nodes = sg_nodes
                   /\ DOMAIN out.g.deg_map = DOMAIN sg_deg_map
                   /\ \A id \in DOMAIN sg_deg_map :
                         out.g.deg_map[id] =
                            <<sg_deg_map[id][1] - (IF id = e THEN 1 ELSE 0),
                              sg_deg_map[id][2] - (IF id = s THEN 1 ELSE 0)>>
                   /\ out.g.undo_history =
                         sg_register_change(sg_undo_history, RemoveEdge(old))

\* remove_edge has just reported not-found on a graph that holds an edge with
\* a payload in one direction only, next to another edge
RemoveEdgeEffectWitness ==
    /\ ~sg_fault
    /\ sg_result = ErrEdgeNotFound
    /\ Len(sg_edges) = 2
    /\ \E a \in Ids, b \in Ids :
          /\ EdgeCount(sg_edges, a, b) = 1
          /\ EdgeCount(sg_edges, b, a) = 0
          /\ sg_edges[sg_edge_index(sg_edges, a, b)].data # Bare

\* C20: from every reachable state of the StateGraph,
\* insert_node_along(new_id, before, after) returns the duplicate-id error
\* when node new_id exists, also when the edge is missing as well, and the
\* not-found error when new_id is free and edge before -> after is missing;
\* in both cases nodes, edges, degrees and log are unchanged, and it fails in
\* no other case.
InsertNodeAlongFailures ==
    ~sg_fault => \A new_id \in Ids, s \in Ids, e \in Ids :
        LET out == sg_insert_node_along(SG, new_id, s, e)
        IN IF new_id \in NodeIds(sg_nodes)
           THEN out.res = ErrDuplicateId /\ out.g = SG
           ELSE IF EdgeCount(sg_edges, s, e) = 0
           THEN out.res = ErrEdgeNotFound /\ out.g = SG
           ELSE out.res = Ok

\* a duplicate id has just been refused after a subdivision, and for some call both
\* the id is taken and the edge is missing
InsertNodeAlongFailuresWitness ==
    /\ ~sg_fault
    /\ sg_result = ErrDuplicateId
    /\ sg_edges # <<>>
    /\ sg_undo_history # <<>>
    /\ sg_undo_history[Len(sg_undo_history)].tag = "InsertNodeAlongEdge"
    /\ \E new_id \in NodeIds(sg_nodes), s \in Ids, e \in Ids : EdgeCount(sg_edges, s, e) = 0

\* the ids of the live nodes of the StateGraph that no edge ends at
SgInDegreeZero == {id \in NodeIds(sg_nodes) : \A i \in 1..Len(sg_edges) : sg_edges[i].end # id}

\* C21: get_source returns the id of the node with in-degree 0 when exactly
\* one node has in-degree 0, the no-source error when no node has in-degree 0
\* (the empty graph included), and the multiple-sources error when two or
\* more nodes have in-degree 0.
GetSourceContract ==
    ~sg_fault =>
        LET out == sg_get_source(SG)
        IN IF Cardinality(SgInDegreeZero) = 1
           THEN out.res = Ok /\ SgInDegreeZero = {out.id}
           ELSE IF SgInDegreeZero = {}
           THEN out.res = ErrNoSource
           ELSE out.res = ErrMultipleSources

\* three nodes and two edges leave exactly one node without an incoming edge,
\* and get_source returns it
GetSourceContractWitness ==
    /\ ~sg_fault
    /\ sg_result = Ok
    /\ Len(sg_nodes) = 3
    /\ Len(sg_edges) = 2
    /\ sg_get_source(SG).res = Ok
    /\ sg_get_source(SG).id \in NodeIds(sg_nodes)

\* an id that was never a node of the graph
StrangerId == NumIds + 1

\* C22: nodes_unreachable_from(start) with a start id that is not a node of
\* the graph (never inserted, or removed by remove_node or by an undo)
\* returns every node id of the graph; the query reads the graph only.
UnreachableFromAbsentStart ==
    ~fault => \A start \in (Ids \cup {StrangerId}) \ DOMAIN nodes :
                 nodes_unreachable_from(DG, start) = DOMAIN nodes

\* a node has been removed, its id still keys the successor map, and the
\* two nodes left carry two edges
UnreachableFromAbsentStartWitness ==
    /\ ~fault
    /\ result = Ok
    /\ Len(edges) = 2
    /\ Cardinality(DOMAIN nodes) = 2
    /\ \E start \in Ids \ DOMAIN nodes :
          /\ start \in DOMAIN neighbors_after
          /\ nodes_unreachable_from(DG, start) = DOMAIN nodes

\* the ids with a directed path of edges from start, start included:
\* the closure of {start} under the edges, NumIds rounds being enough
RECURSIVE ReachClosure(_, _, _)
ReachClosure(seen, es, rounds) ==
    IF rounds = 0 THEN seen
    ELSE ReachClosure(seen \cup {es[i].end : i \in {j \in 1..Len(es) : es[j].start \in seen}},
                      es, rounds - 1)

ReachableFrom(start, es) == ReachClosure({start}, es, NumIds)

\* C23: for a start id that is a node of the graph, the ids visited by the
\* traversal are exactly the ids reachable from start along directed edges,
\* start included and each id once, and nodes_unreachable_from(start) is
\* exactly the set of nodes with no directed path from start.
TraversalVisitsReachable ==
    ~fault => \A start \in DOMAIN nodes :
        LET census == reachable_census(DG, start)
        IN /\ Range(census) = ReachableFrom(start, edges)
           /\ \A i \in 1..Len(census), j \in 1..Len(census) : census[i] = census[j] => i = j
           /\ start \in Range(census)
           /\ nodes_unreachable_from(DG, start) = DOMAIN nodes \ ReachableFrom(start, edges)

\* a node with two successors, a third node reached through both, is
\* traversed: two edges leave one start
TraversalVisitsReachableWitness ==
    /\ ~fault
    /\ Len(edges) = 2
    /\ \E start \in DOMAIN nodes :
          /\ Len(neighbors_after[start]) = 2
          /\ Len(reachable_census(DG, start)) = 3
          /\ nodes_unreachable_from(DG, start) = {}

\* the live nodes of the struct that no edge ends at
InDegreeZero == {id \in DOMAIN nodes : \A i \in 1..Len(edges) : edges[i].end # id}

\* C24: is_connected returns true if and only if exactly one node has
\* in-degree 0 and every node is reachable from that node; it returns false
\* for the empty graph, for a graph with several sources and for a graph
\* with no source.
IsConnectedContract ==
    ~fault =>
        /\ is_connected(DG) <=>
              /\ Cardinality(InDegreeZero) = 1
              /\ \A s \in InDegreeZero : DOMAIN nodes \subseteq ReachableFrom(s, edges)
        /\ DOMAIN nodes = {} => ~is_connected(DG)
        /\ Cardinality(InDegreeZero) > 1 => ~is_connected(DG)
        /\ InDegreeZero = {} => ~is_connected(DG)

\* a graph with one source and a cycle apart from it is not connected
IsConnectedContractWitness ==
    /\ ~fault
    /\ Cardinality(InDegreeZero) = 1
    /\ Len(edges) = 2
    /\ Cardinality(DOMAIN nodes) = 3
    /\ ~is_connected(DG)

\* C25: undo on a graph whose history log is empty returns success and
\* leaves nodes, edges, adjacency lists and the empty log unchanged.
UndoOnEmptyLogIsNoOp ==
    (~fault /\ undo_history = <<>>) => undo(DG) = DG /\ undo_result(DG) = Ok

\* the log of a graph with nodes and two edges has been emptied by undos
\* (older descriptors were evicted), and one more undo gives the same graph
UndoOnEmptyLogIsNoOpWitness ==
    /\ ~fault
    /\ result = Ok
    /\ undo_history = <<>>
    /\ Len(edges) = 2
    /\ DOMAIN nodes # {}
    /\ undo(DG) = DG

\* C26: in every state reached by successful public mutating calls and
\* undos, evictions of old log entries included, a call of undo returns
\* success and meets no internal failure (no missing node, edge or index
\* entry while the inverse is applied).
UndoNeverFails ==
    ~fault => ~undo(DG).fault /\ undo_result(DG) = Ok

\* C27: in every reachable state of the StateGraph the history log holds no
\* Failure descriptor, and a public mutating call that fails validation
\* returns with the log as it was (register_change is not reached).
NoFailureInLog ==
    /\ [](\A i \in 1..Len(sg_undo_history) : sg_undo_history[i].tag # "Failure")
    /\ [][sg_result' \in Errors => sg_undo_history' = sg_undo_history]_vars

\* a call has just been refused while the log is full of the descriptors of
\* earlier calls
NoFailureInLogWitness ==
    /\ ~sg_fault
    /\ sg_result \in Errors
    /\ Len(sg_undo_history) = FlatHistLimit
    /\ sg_edges # <<>>

\* C28: when history recording is disabled (mut_history returns None), after
\* any sequence of mutations register_change, pop_change and clear_history
\* record nothing and return nothing, and undo returns success and leaves the
\* graph as it is.
DisabledHistoryIsInert ==
    /\ undo_history = NoHistory
    /\ \A change \in CacheChanges :
          /\ register_change(undo_history, change) = undo_history
          /\ register_change_returned(undo_history) = NoChange
    /\ pop_change(undo_history) = undo_history
    /\ pop_change_returned(undo_history) = NoChange
    /\ clear_history(undo_history) = undo_history
    /\ ~fault
    /\ undo(DG) = DG
    /\ undo_result(DG) = Ok

\* three nodes and two edges have been put in with recording disabled
DisabledHistoryIsInertWitness ==
    /\ undo_history = NoHistory
    /\ result = Ok
    /\ Cardinality(DOMAIN nodes) = 3
    /\ Len(edges) = 2
    /\ undo(DG) = DG

\* the sequences of at most MaxEdges distinct id pairs handed to from_edges
PairSeqs ==
    {<<>>} \cup {<<p>> : p \in Ids \X Ids}
           \cup {s \in {<<p, q>> : p \in Ids \X Ids, q \in Ids \X Ids} : s[1] # s[2]}

\* C29: a graph built by from_edges from a sequence of distinct id pairs
\* holds exactly one edge per pair and exactly the nodes that are endpoints
\* of a pair, and its history log is empty.
BulkLoadBuildsGraph ==
    \A pairs \in PairSeqs :
        LET g == sg_from_edges(pairs)
        IN /\ ~g.fault
           /\ Len(g.edges) = Len(pairs)
           /\ \A p \in Range(pairs) : EdgeCount(g.edges, p[1], p[2]) = 1
           /\ NodeIds(g.nodes) = UNION {{p[1], p[2]} : p \in Range(pairs)}
           /\ Len(g.nodes) = Cardinality(NodeIds(g.nodes))
           /\ g.undo_history = <<>>

\* C30: a StateGraph loaded from a saved snapshot has the nodes, edges and
\* name that were saved and an empty history log, its degree map has one
\* entry per loaded node with the counts of the loaded edges, and a mutating
\* call on it returns what it returns on the original.
LoadRebuildsIndices ==
    ~sg_fault => \A name \in Names :
        LET loaded == sg_load_from_file(sg_save_to_file(SG, name))
        IN /\ loaded.name = name
           /\ loaded.g.nodes = sg_nodes
           /\ loaded.g.edges = sg_edges
           /\ loaded.g.undo_history = <<>>
           /\ DOMAIN loaded.g.deg_map = NodeIds(sg_nodes)
           /\ \A id \in DOMAIN loaded.g.deg_map :
                 loaded.g.deg_map[id] =
                    <<Cardinality({i \in 1..Len(sg_edges) : sg_edges[i].end = id}),
                      Cardinality({i \in 1..Len(sg_edges) : sg_edges[i].start = id})>>
           /\ \A s \in Ids, e \in Ids :
                 LET on_loaded == sg_insert_edge(loaded.g, BareEdge(s, e))
                     on_original == sg_insert_edge(SG, BareEdge(s, e))
                 IN /\ ~on_loaded.g.fault
                    /\ on_loaded.res = on_original.res
                    /\ on_loaded.g.edges = on_original.g.edges

\* C31: in every reachable state the key set of the predecessor map and the
\* key set of the successor map equal the set of live node ids: a node
\* removed by remove_node or by an undo leaves no adjacency entry behind.
AdjacencyKeysAreLiveNodes ==
    ~fault => /\ DOMAIN neighbors_before = DOMAIN nodes
              /\ DOMAIN neighbors_after = DOMAIN nodes

\* C32: in every reachable state whose newest descriptor is AddNode(n), node
\* n is stored as logged and no edge starts or ends at it, so the undo that
\* pops the descriptor removes the node without a cascade and removes no
\* edge.
UndoAddNodeIsEdgeFree ==
    (~fault /\ undo_history # <<>> /\ undo_history[Len(undo_history)].tag = "AddNode") =>
        LET n == undo_history[Len(undo_history)].node
            u == undo(DG)
        IN /\ n.id \in DOMAIN nodes
           /\ nodes[n.id] = n
           /\ \A i \in 1..Len(edges) : edges[i].start # n.id /\ edges[i].end # n.id
           /\ neighbors_before[n.id] = <<>>
           /\ neighbors_after[n.id] = <<>>
           /\ ~u.fault
           /\ u.edges = edges
           /\ u.nodes = MapRemove(nodes, n.id)

\* an AddNode descriptor is the newest entry of the log of a graph that
\* holds two edges between the other nodes
UndoAddNodeIsEdgeFreeWitness ==
    /\ ~fault
    /\ result = Ok
    /\ undo_history # <<>>
    /\ undo_history[Len(undo_history)].tag = "AddNode"
    /\ Len(edges) = 2
    /\ Cardinality(DOMAIN nodes) = 3

\* C33: undo never appends to the history log: on a non-empty log the log
\* after the call is the log before it without its newest entry, the older
\* entries unchanged and in order, on an empty log it stays empty, and as
\* many undo calls as the log has entries leave it empty.
UndoShortensLogByOne ==
    ~fault =>
        /\ undo_history # <<>> =>
              undo(DG).undo_history = SubSeq(undo_history, 1, Len(undo_history) - 1)
        /\ undo_history = <<>> => undo(DG).undo_history = <<>>
        /\ \A k \in 0..Len(undo_history) :
              LET u == UndoTimes(DG, k)
              IN \/ u.fault
                 \/ u.undo_history = SubSeq(undo_history, 1, Len(undo_history) - k)

\* a full log whose newest entry is a cascading removal is undone twice and
\* is empty afterwards
UndoShortensLogByOneWitness ==
    /\ ~fault
    /\ result = Ok
    /\ Len(undo_history) = HistLimit
    /\ undo_history[Len(undo_history)].tag = "RemoveNode"
    /\ undo_history[Len(undo_history)].edges # <<>>
    /\ ~UndoTimes(DG, HistLimit).fault
    /\ UndoTimes(DG, HistLimit).undo_history = <<>>
    /\ UndoTimes(DG, HistLimit).edges # <<>>

\* C34: from every reachable state, insert_edge_with_nodes(a, a) with node a
\* absent succeeds without an internal failure and adds node a once and the
\* self-loop a -> a, and the undo that follows ends without an internal
\* failure with that node and that edge removed.
SelfLoopWithNewNodeUndoes ==
    ~fault => \A a \in Ids \ DOMAIN nodes :
        LET out == insert_edge_with_nodes(DG, a, a)
            u == undo(out.g)
        IN /\ out.res = Ok
           /\ ~out.g.fault
           /\ out.g.nodes = MapInsert(nodes, a, BareNode(a))
           /\ out.g.edges = Append(edges, BareEdge(a, a))
           /\ ~u.fault
           /\ u.nodes = nodes
           /\ u.edges = edges

\* C35: for every stored edge list and every id, check_node_degrees returns
\* (number of edges ending at id, number of edges starting at id), which is
\* (0, 0) when no edge touches id, and the map-keyed variant and the
\* flat-collection variant return the same pair.
CheckNodeDegreesIsInOut ==
    ~fault => \A id \in Ids :
        LET in_deg == Cardinality({i \in 1..Len(edges) : edges[i].end = id})
            out_deg == Cardinality({i \in 1..Len(edges) : edges[i].start = id})
        IN /\ check_node_degrees(edges, id) = <<in_deg, out_deg>>
           /\ sg_check_node_degrees(edges, id) = <<in_deg, out_deg>>
           /\ check_node_degrees(edges, id) = sg_check_node_degrees(edges, id)

\* C36: from every start id the reachability traversal ends, on graphs with
\* cycles and self-loops too: it makes at most one call per stored edge
\* besides the first, each id is pushed to the visited list at most once and
\* the successor list of an id is expanded at most once.
TraversalTerminates ==
    ~fault => \A start \in Ids \cup {StrangerId} :
        LET run == collect_counted(NewRun, start, neighbors_after)
        IN /\ ~run.cut
           /\ run.calls <= 1 + Len(edges)
           /\ \A i \in 1..Len(run.census), j \in 1..Len(run.census) :
                 run.census[i] = run.census[j] => i = j
           /\ \A i \in 1..Len(run.expanded), j \in 1..Len(run.expanded) :
                 run.expanded[i] = run.expanded[j] => i = j
           /\ run.census = reachable_census(DG, start)

\* a cycle of two edges is traversed: the start is met again after its
\* successor and is not expanded a second time
TraversalTerminatesWitness ==
    /\ ~fault
    /\ Len(edges) = 2
    /\ \E a \in DOMAIN nodes, b \in DOMAIN nodes :
          /\ a # b
          /\ EdgeCount(edges, a, b) = 1
          /\ EdgeCount(edges, b, a) = 1
          /\ collect_counted(NewRun, a, neighbors_after).calls = 3
          /\ collect_counted(NewRun, a, neighbors_after).census = <<a, b>>
          /\ collect_counted(NewRun, a, neighbors_after).expanded = <<a, b>>

====
